---- MODULE Spec2Model ----
(***************************************************************************)
(* The unified error type of mundane (src/lib.rs): Error(ErrorInner), its  *)
(* two constructors (Error::new, From<BoringError>) and its two renderers  *)
(* (impl Display, impl Debug).                                             *)
(*                                                                         *)
(* Text is a sequence of one-character strings.  A format string is a      *)
(* sequence too, whose elements are literal characters and the two         *)
(* placeholders "{}" and "{:?}".                                           *)
(***************************************************************************)
EXTENDS Naturals, Sequences, FiniteSets

VARIABLES err, arg, log

vars == <<err, arg, log>>

\* ---------------------------------------------------------------- bounds

\* Longest message, display text or debug text drawn as an input.
MaxLen == 2

\* Largest stack depth an engine failure reports.
MaxDepth == 3

\* Most operations (the construction and the renderings) on one error.
MaxOps == 4

\* ------------------------------------------------------------------ text

NL == "\n"

Char == {"a", NL}

RECURSIVE SeqsUpTo(_, _)
SeqsUpTo(S, n) ==
  IF n = 0 THEN {<<>>}
  ELSE LET shorter == SeqsUpTo(S, n - 1)
       IN  shorter \cup {Append(s, c) : s \in {t \in shorter : Len(t) = n - 1}, c \in S}

\* Every String the callers may pass to Error::new, the empty one included.
Strings == SeqsUpTo(Char, MaxLen)

\* Texts without a line break.
Lines == SeqsUpTo(Char \ {NL}, MaxLen)

RECURSIVE Flatten(_)
Flatten(ss) == IF ss = <<>> THEN <<>> ELSE Head(ss) \o Flatten(Tail(ss))

\* The number of line breaks of a text.
Newlines(t) == Cardinality({i \in 1..Len(t) : t[i] = NL})

IsPrefix(p, t) == Len(p) <= Len(t) /\ SubSeq(t, 1, Len(p)) = p

\* ------------------------------------------------- the engine's failure

\* boringssl::BoringError, seen through the three queries lib.rs makes: its
\* Display text (one line), its Debug text and its stack depth (at least 1).
BoringErrors == [display : Lines, debug : Strings, depth : 1..MaxDepth]

stack_depth(e) == e.depth

BoringError_Display(e) == e.display

BoringError_Debug(e) == e.debug

\* ------------------------------------------------- std::fmt on a String

\* impl Display for String: the text itself.
String_Display(s) == s

\* What the placeholders expand to for a value of each type.  lib.rs never
\* formats a String with "{:?}".
StringArg(s) == [display |-> String_Display(s)]

BoringArg(e) == [display |-> BoringError_Display(e), debug |-> BoringError_Debug(e)]

\* write!(f, fs, a) on an empty buffer: the literal characters of fs, "{}"
\* replaced by a's Display text and "{:?}" by its Debug text.
write(fs, a) ==
  [res  |-> "Ok",
   text |-> Flatten([i \in 1..Len(fs) |->
                       IF fs[i] = "{}" THEN a.display
                       ELSE IF fs[i] = "{:?}" THEN a.debug
                       ELSE <<fs[i]>>])]

\* ------------------------------------------------------------ the error

\* enum ErrorInner { Mundane(String), Boring(BoringError) }
Mundane(s) == [tag |-> "Mundane", v |-> s]

Boring(e) == [tag |-> "Boring", v |-> e]

ErrorInner == {Mundane(s) : s \in Strings} \cup {Boring(e) : e \in BoringErrors}

\* struct Error(ErrorInner): a tuple struct, its field 0 is self[1] here.
Error(inner) == <<inner>>

NoError == <<>>

Error_new(s) == Error(Mundane(s))

\* Variant of Error_from: the failure is turned into a message, as
\* Error::new(err.to_string()) would.
Error_from_Downgraded(e) == Error(Mundane(BoringError_Display(e)))

Error_from(e) == Error(Boring(e))

\* The format strings of the two impls.
FmtPlain == <<"{}">>

FmtBoringDisplay == <<"b", "o", "r", "i", "n", "g", "s", "s", "l", ":", " ", "{}">>

FmtBoringDebugInline == <<"b", "o", "r", "i", "n", "g", "s", "s", "l", ":", " ", "{:?}">>

FmtBoringDebugBlock == <<"b", "o", "r", "i", "n", "g", "s", "s", "l", ":", NL, "{:?}">>

\* Variant of Display_fmt: the Boring arm uses "{:?}" in place of "{}".
Display_fmt_DebugText(self) ==
  IF self[1].tag = "Mundane"
  THEN write(FmtPlain, StringArg(self[1].v))
  ELSE write(FmtBoringDebugInline, BoringArg(self[1].v))

\* Variant of Display_fmt: the Boring arm is the one of impl Debug.
Display_fmt_AsDebug(self) ==
  IF self[1].tag = "Mundane"
  THEN write(FmtPlain, StringArg(self[1].v))
  ELSE IF stack_depth(self[1].v) = 1
       THEN write(FmtBoringDebugInline, BoringArg(self[1].v))
       ELSE write(FmtBoringDebugBlock, BoringArg(self[1].v))

\* impl Display for Error
Display_fmt(self) ==
  IF self[1].tag = "Mundane"
  THEN write(FmtPlain, StringArg(self[1].v))
  ELSE write(FmtBoringDisplay, BoringArg(self[1].v))

\* Variant of Debug_fmt: no branch on the stack depth, always one line.
Debug_fmt_AlwaysInline(self) ==
  IF self[1].tag = "Mundane"
  THEN write(FmtPlain, StringArg(self[1].v))
  ELSE write(FmtBoringDebugInline, BoringArg(self[1].v))

\* Variant of Debug_fmt: no branch on the stack depth, always a line break.
Debug_fmt_AlwaysBlock(self) ==
  IF self[1].tag = "Mundane"
  THEN write(FmtPlain, StringArg(self[1].v))
  ELSE write(FmtBoringDebugBlock, BoringArg(self[1].v))

\* impl Debug for String: the text in double quotes, a line break escaped.
String_Debug(s) ==
  <<"\"">> \o Flatten([i \in 1..Len(s) |-> IF s[i] = NL THEN <<"\\", "n">> ELSE <<s[i]>>])
          \o <<"\"">>

\* Variant of Debug_fmt: the Mundane arm uses "{:?}", as a derived Debug
\* would.
Debug_fmt_Derived(self) ==
  IF self[1].tag = "Mundane"
  THEN write(<<"{:?}">>, [display |-> String_Display(self[1].v), debug |-> String_Debug(self[1].v)])
  ELSE IF stack_depth(self[1].v) = 1
       THEN write(FmtBoringDebugInline, BoringArg(self[1].v))
       ELSE write(FmtBoringDebugBlock, BoringArg(self[1].v))

\* Variant of Debug_fmt: "no stack trace" tested as a stack depth of 0.
Debug_fmt_DepthZero(self) ==
  IF self[1].tag = "Mundane"
  THEN write(FmtPlain, StringArg(self[1].v))
  ELSE IF stack_depth(self[1].v) = 0
       THEN write(FmtBoringDebugInline, BoringArg(self[1].v))
       ELSE write(FmtBoringDebugBlock, BoringArg(self[1].v))

\* impl Debug for Error
Debug_fmt(self) ==
  IF self[1].tag = "Mundane"
  THEN write(FmtPlain, StringArg(self[1].v))
  ELSE IF stack_depth(self[1].v) = 1
       THEN write(FmtBoringDebugInline, BoringArg(self[1].v))
       ELSE write(FmtBoringDebugBlock, BoringArg(self[1].v))

\* --------------------------------------------------------------- actions

Entry(op, r) == [op |-> op, res |-> r.res, text |-> r.text]

Init ==
  /\ err = NoError
  /\ arg = NoError
  /\ log = <<>>

\* Variant of New: an empty message is refused.
New_NonEmpty(s) ==
  /\ err = NoError
  /\ s # <<>>
  /\ err' = Error_new(s)
  /\ arg' = [kind |-> "String", v |-> s]
  /\ log' = <<Entry("new", [res |-> "Ok", text |-> <<>>])>>

\* Facade code reports a local failure: Error::new(s).
New(s) ==
  /\ err = NoError
  /\ err' = Error_new(s)
  /\ arg' = [kind |-> "String", v |-> s]
  /\ log' = <<Entry("new", [res |-> "Ok", text |-> <<>>])>>

\* An engine failure is propagated: Error::from(e).
From(e) ==
  /\ err = NoError
  /\ err' = Error_from(e)
  /\ arg' = [kind |-> "BoringError", v |-> e]
  /\ log' = <<Entry("from", [res |-> "Ok", text |-> <<>>])>>

\* Variant of DisplayFmt: rendering drains the failure's stack trace.
DisplayFmt_Draining ==
  /\ err # NoError
  /\ Len(log) < MaxOps
  /\ log' = Append(log, Entry("display", Display_fmt(err)))
  /\ err' = IF err[1].tag = "Boring"
            THEN Error(Boring([err[1].v EXCEPT !.depth = 1]))
            ELSE err
  /\ UNCHANGED arg

\* format!("{}", err)
DisplayFmt ==
  /\ err # NoError
  /\ Len(log) < MaxOps
  /\ log' = Append(log, Entry("display", Display_fmt(err)))
  /\ UNCHANGED <<err, arg>>

\* format!("{:?}", err)
DebugFmt ==
  /\ err # NoError
  /\ Len(log) < MaxOps
  /\ log' = Append(log, Entry("debug", Debug_fmt(err)))
  /\ UNCHANGED <<err, arg>>

Next ==
  \/ \E s \in Strings : New(s)
  \/ \E e \in BoringErrors : From(e)
  \/ DisplayFmt
  \/ DebugFmt

Spec == Init /\ [][Next]_vars

\* ---------------------------------------------------------------- claims

\* The renderings made so far: the entries of log from the second on.
Renderings(op) == {i \in 1..Len(log) : log[i].op = op}

\* The expected prefixes, written out: "boringssl: " and "boringssl:\n".
PrefixSpace == <<"b", "o", "r", "i", "n", "g", "s", "s", "l", ":", " ">>

PrefixNewline == <<"b", "o", "r", "i", "n", "g", "s", "s", "l", ":", NL>>

FromEngine == arg # NoError /\ arg.kind = "BoringError"

FromMessage == arg # NoError /\ arg.kind = "String"

C2_DisplayEngine ==
  FromEngine =>
    \A i \in Renderings("display") : log[i].text = PrefixSpace \o arg.v.display

\* A failure whose display and debug texts differ has been rendered by Display.
C2_Witness ==
  /\ FromEngine
  /\ arg.v.display = <<"a">>
  /\ arg.v.debug = <<NL, "a">>
  /\ Renderings("display") # {}

\* C3: Display and Debug of the Error built from a message m by Error::new
\* are both exactly m, the empty message included.
C3_LocalVerbatim ==
  FromMessage =>
    \A i \in Renderings("display") \cup Renderings("debug") : log[i].text = arg.v

\* A message holding a line break has been rendered by Display and by Debug.
C3_Witness ==
  /\ FromMessage
  /\ arg.v = <<"a", NL>>
  /\ Renderings("display") # {}
  /\ Renderings("debug") # {}

\* The empty message has been rendered by Display and by Debug.
C3_WitnessEmpty ==
  /\ FromMessage
  /\ arg.v = <<>>
  /\ Renderings("display") # {}
  /\ Renderings("debug") # {}

C5_TwoKinds ==
  /\ log # <<>> => err # NoError
  /\ err # NoError =>
       /\ Len(err) = 1
       /\ err[1].tag \in {"Mundane", "Boring"}
       /\ err[1] \in ErrorInner
       /\ FromMessage <=> err[1].tag = "Mundane"
       /\ FromEngine <=> err[1].tag = "Boring"
       /\ err[1].v = arg.v

\* A converted engine failure has been rendered by Debug and then by Display.
C5_Witness ==
  /\ FromEngine
  /\ err[1].tag = "Boring"
  /\ arg.v.depth = 2
  /\ Len(log) = 3
  /\ log[2].op = "debug"
  /\ log[3].op = "display"

\* C6: construction, conversion, Display and Debug are total: every message
\* and every engine failure can be wrapped, every error can be rendered by
\* Display and by Debug, and each operation ends with Ok.
C6_Total ==
  /\ \A i \in 1..Len(log) : log[i].res = "Ok"
  /\ err = NoError =>
       /\ \A s \in Strings : ENABLED New(s)
       /\ \A e \in BoringErrors : ENABLED From(e)
  /\ (err # NoError /\ Len(log) < MaxOps) =>
       /\ ENABLED DisplayFmt
       /\ ENABLED DebugFmt

\* An engine failure of depth exactly 1 with empty texts has been converted
\* and rendered by Display and by Debug.
C6_Witness ==
  /\ FromEngine
  /\ arg.v = [display |-> <<>>, debug |-> <<>>, depth |-> 1]
  /\ Renderings("display") # {}
  /\ Renderings("debug") # {}

\* The empty message has been wrapped and rendered by Display and by Debug.
C6_WitnessEmpty ==
  /\ FromMessage
  /\ arg.v = <<>>
  /\ \A i \in Renderings("display") \cup Renderings("debug") : log[i].res = "Ok"
  /\ Renderings("display") # {}
  /\ Renderings("debug") # {}

\* Every rendering by Display gave one text and every rendering by Debug
\* gave one text.
SameTextEachTime ==
  /\ Cardinality({log[i].text : i \in Renderings("display")}) <= 1
  /\ Cardinality({log[i].text : i \in Renderings("debug")}) <= 1

\* C8: an Error is immutable after construction: no step changes an error
\* that exists (its variant, its message, or its failure's display text,
\* debug text and stack depth), and rendering it any number of times, in any
\* order of Display and Debug, yields the same text each time.
C8_Immutable ==
  /\ []SameTextEachTime
  /\ [][err # NoError => err' = err]_vars

\* An engine failure of depth 2 has been rendered by Display, by Debug and by
\* Display again.
C8_Witness ==
  /\ FromEngine
  /\ arg.v.depth = 2
  /\ Len(log) = 4
  /\ log[2].op = "display"
  /\ log[3].op = "debug"
  /\ log[4].op = "display"

\* C9: Debug of an engine error with no stack trace or a single frame (stack
\* depth 1) puts a space, and no line break, between "boringssl:" and the
\* failure's debug text; it puts a line break there only when the stack
\* trace has several frames (stack depth greater than 1).
C9_NewlineOnlyForTrace ==
  FromEngine =>
    \A i \in Renderings("debug") :
      /\ Len(log[i].text) > Len(PrefixSpace) - 1
      /\ (log[i].text[Len(PrefixSpace)] = NL) <=> (arg.v.depth > 1)
      /\ (log[i].text[Len(PrefixSpace)] = " ") <=> (arg.v.depth = 1)
      /\ Newlines(log[i].text) =
           Newlines(arg.v.debug) + (IF arg.v.depth > 1 THEN 1 ELSE 0)

\* A failure of depth 1 whose debug text has no line break has been rendered
\* by Debug, on one line.
C9_Witness ==
  /\ FromEngine
  /\ arg.v.depth = 1
  /\ arg.v.debug = <<"a", "a">>
  /\ \E i \in Renderings("debug") : Newlines(log[i].text) = 0

\* C10: Display of an engine error depends on the failure's display text
\* alone: every engine failure with the same display text, whatever its
\* stack depth and debug text, is displayed as the same text, and the
\* wrapper adds no line break to it.
C10_DisplayIgnoresTrace ==
  FromEngine =>
    \A i \in Renderings("display") :
      /\ \A e \in BoringErrors :
           e.display = arg.v.display => Display_fmt(Error_from(e)).text = log[i].text
      /\ Newlines(log[i].text) = Newlines(arg.v.display)

\* A failure of depth 3 with a two-line debug text has been rendered by
\* Display.
C10_Witness ==
  /\ FromEngine
  /\ arg.v.depth = 3
  /\ arg.v.display = <<"a">>
  /\ arg.v.debug = <<"a", NL>>
  /\ Renderings("display") # {}

====
